---------------------------- MODULE Spec2Model ----------------------------
(***************************************************************************)
(* A model of src/src/content.ts (va-ddc): the helpers a data-driven       *)
(* content widget runs over the message object it receives.                *)
(*                                                                         *)
(*   validateRoles, initializeSelections, convertDateColumns,              *)
(*   getVAParameters      operators over the message, one action each      *)
(*   setupResizeListener  the resize debouncer, with the host's event      *)
(*                        dispatch and timers                              *)
(*                                                                         *)
(* JavaScript values are modelled as follows.  A string that the code      *)
(* takes apart (a date cell) is a sequence of one-character strings; a     *)
(* string that is only compared (a type tag, a label) is a TLA+ string.    *)
(* A cell is [num |-> n], [str |-> chars] or [date |-> d]; indexes are     *)
(* 0-based as in the code and moved by one where a sequence is indexed.    *)
(***************************************************************************)
EXTENDS Integers, Sequences, FiniteSets, TLC

VARIABLES
    resultData,     \* the message object handed to the functions
    expectedTypes,  \* validateRoles' second argument
    optionalTypes,  \* validateRoles' third argument
    called,         \* the function called last ("none" before any call)
    returned,       \* what that call returned
    raised,         \* whether that call ended with a TypeError
    before,         \* the message as it was when that call started
    parsed,         \* the strings that call handed to new Date(), in order
    prior,          \* validateRoles' result before a column was appended
    listeners,      \* number of setupResizeListener calls made so far
    timeoutID,      \* the timer handle(s) the resize handlers keep
    timers,         \* the host's pending timers
    dispatching,    \* the resize listener the host is about to run (0: none)
    elapsed,        \* time since the last raw resize notification
    burst,          \* bookkeeping of the current burst of notifications
    invoked         \* per callback: the times (as elapsed) it ran this burst

vars == <<resultData, expectedTypes, optionalTypes, called, returned, raised,
          before, parsed, prior, listeners, timeoutID, timers, dispatching,
          elapsed, burst, invoked>>

messageVars == <<resultData, expectedTypes, optionalTypes, called, returned,
                 raised, before, parsed, prior>>

resizeVars == <<listeners, timeoutID, timers, dispatching, elapsed, burst,
                invoked>>

(***************************************************************************)
(* Bounds of the model.                                                    *)
(***************************************************************************)
MaxCols == 3
MaxRows == 2
MaxTypes == 2
MaxParams == 3
MaxCallers == 2
MaxNotifs == 3

Min(a, b) == IF a < b THEN a ELSE b

(***************************************************************************)
(* JavaScript string primitives used by convertDateColumns.                *)
(***************************************************************************)
Whitespace == {" ", "\t", "\n"}

RECURSIVE trimStart(_)
trimStart(s) ==
    IF s # <<>> /\ Head(s) \in Whitespace THEN trimStart(Tail(s)) ELSE s

RECURSIVE trimEnd(_)
trimEnd(s) ==
    IF s # <<>> /\ s[Len(s)] \in Whitespace
    THEN trimEnd(SubSeq(s, 1, Len(s) - 1))
    ELSE s

\* String.prototype.trim
trim(s) == trimEnd(trimStart(s))

\* String.prototype.substr(start): the characters from 0-based start on
substrFrom(s, start) == SubSeq(s, start + 1, Len(s))

\* String.prototype.substr(start, length)
substr(s, start, length) == SubSeq(s, start + 1, Min(Len(s), start + length))

Digits == {"0", "1", "2", "3", "4", "5", "6", "7", "8", "9"}

DigitValue(ch) ==
    CASE ch = "0" -> 0 [] ch = "1" -> 1 [] ch = "2" -> 2 [] ch = "3" -> 3
      [] ch = "4" -> 4 [] ch = "5" -> 5 [] ch = "6" -> 6 [] ch = "7" -> 7
      [] ch = "8" -> 8 [] ch = "9" -> 9

RECURSIVE Number(_)
Number(s) ==
    IF s = <<>> THEN 0
    ELSE 10 * Number(SubSeq(s, 1, Len(s) - 1)) + DigitValue(s[Len(s)])

AllDigits(s) == \A i \in 1..Len(s) : s[i] \in Digits

\* the date-only form of the ECMAScript date-time string format, YYYY-MM-DD
IsISODate(s) ==
    /\ Len(s) = 10
    /\ s[5] = "-" /\ s[8] = "-"
    /\ AllDigits(SubSeq(s, 1, 4)) /\ AllDigits(SubSeq(s, 6, 7))
    /\ AllDigits(SubSeq(s, 9, 10))
    /\ Number(SubSeq(s, 6, 7)) \in 1..12
    /\ Number(SubSeq(s, 9, 10)) \in 1..31

(***************************************************************************)
(* new Date(dateStr).  A string in the ISO format denotes its date; for    *)
(* any other string the result is whatever the host's own parsing makes of *)
(* it (some date, or Invalid Date), which the model leaves open.           *)
(***************************************************************************)
NewDate(dateStr) ==
    IF IsISODate(dateStr)
    THEN [parse |-> "iso",
          ymd |-> <<Number(SubSeq(dateStr, 1, 4)), Number(SubSeq(dateStr, 6, 7)),
                    Number(SubSeq(dateStr, 9, 10))>>]
    ELSE [parse |-> "implementation-defined", ymd |-> <<>>]

(***************************************************************************)
(* Cells and columns.                                                      *)
(***************************************************************************)
NumCell(n) == [num |-> n]
StrCell(s) == [str |-> s]
DateCell(d) == [date |-> d]

IsNumber(cell) == DOMAIN cell = {"num"}
IsString(cell) == DOMAIN cell = {"str"}
IsDate(cell) == DOMAIN cell = {"date"}

\* VAColumn; usage and format are optional ("none": the property is absent)
VAColumn(name, type, usage, formatString) ==
    [name |-> name, type |-> type, usage |-> usage, formatString |-> formatString]

\* Array.prototype.splice(c, 1) at 0-based c; nothing to remove past the end
splice(a, c) ==
    IF c + 1 > Len(a) THEN a
    ELSE SubSeq(a, 1, c) \o SubSeq(a, c + 2, Len(a))


\* the cell arrayData[r][c] of a row at 0-based c; undefined past the end
cellAt(row, c) == IF c + 1 > Len(row) THEN [undefined |-> TRUE] ELSE row[c + 1]

(***************************************************************************)
(* initializeSelections                                                    *)
(***************************************************************************)
\* a loose comparison (cell != 0): a string is converted to a number first
looseNotZero(cell) ==
    IF IsNumber(cell) THEN cell.num # 0
    ELSE IF IsString(cell)
         THEN ~(AllDigits(trim(cell.str)) /\ Number(trim(cell.str)) = 0)
         ELSE TRUE

\* arrayData[r][c] !== 0: only the number 0 is equal to 0
strictNotZero(cell) == ~(IsNumber(cell) /\ cell.num = 0)

\* the rows loop without the removal of the brush cell
RECURSIVE brushRowsKeepCell(_, _, _, _)
brushRowsKeepCell(arrayData, selections, c, r) ==
    IF r >= Len(arrayData)
    THEN [data |-> arrayData, selections |-> selections]
    ELSE brushRowsKeepCell(arrayData,
             IF strictNotZero(cellAt(arrayData[r + 1], c))
             THEN Append(selections, [row |-> r]) ELSE selections,
             c, r + 1)

\* for (var r = 0; r < arrayData.length; r++): record row r when its cell at c
\* is not 0, then remove that cell from the row
RECURSIVE brushRows(_, _, _, _)
brushRows(arrayData, selections, c, r) ==
    IF r >= Len(arrayData)
    THEN [data |-> arrayData, selections |-> selections]
    ELSE brushRows([arrayData EXCEPT ![r + 1] = splice(arrayData[r + 1], c)],
             IF strictNotZero(cellAt(arrayData[r + 1], c))
             THEN Append(selections, [row |-> r]) ELSE selections,
             c, r + 1)

\* for (var c = 0; c < columnsInfo.length; c++): c is incremented after a
\* removal too, and columnsInfo.length is read again at every test
RECURSIVE selectionsLoop(_, _, _, _)
selectionsLoop(columnsInfo, arrayData, selections, c) ==
    IF c >= Len(columnsInfo)
    THEN [columns |-> columnsInfo, data |-> arrayData, selections |-> selections]
    ELSE IF columnsInfo[c + 1].usage = "brush"
         THEN LET rows == brushRows(arrayData, selections, c, 0)
              IN  selectionsLoop(splice(columnsInfo, c), rows.data,
                                 rows.selections, c + 1)
         ELSE selectionsLoop(columnsInfo, arrayData, selections, c + 1)

\* the message after the call and the value returned
initializeSelections(msg) ==
    IF ~msg.present
    THEN [resultData |-> msg, returned |-> [null |-> TRUE]]
    ELSE IF msg.hasColumns /\ msg.hasData
         THEN LET out == selectionsLoop(msg.columns, msg.data, <<>>, 0)
              IN  [resultData |-> [msg EXCEPT !.columns = out.columns,
                                              !.data = out.data],
                   returned |-> [selections |-> out.selections]]
         ELSE [resultData |-> msg, returned |-> [selections |-> <<>>]]

(***************************************************************************)
(* convertDateColumns                                                      *)
(***************************************************************************)
\* DDMMYY8 read as eight digits DDMMYYYY: year from 4, month at 2, day at 0
rearrangeEightDigits(dateStr, formatString) ==
    IF formatString = "DDMMYY8"
    THEN substrFrom(dateStr, 4) \o <<"-">> \o substr(dateStr, 2, 2)
             \o <<"-">> \o substr(dateStr, 0, 2)
    ELSE IF formatString = "DATE9"
         THEN substr(dateStr, 0, 2) \o <<" ">> \o substr(dateStr, 2, 3)
                  \o <<" ">> \o substrFrom(dateStr, 5)
         ELSE dateStr

\* the reordering of the trimmed string by the column's format; JULIAN7 and
\* any other or missing format leave it as it is
rearrange(dateStr, formatString) ==
    IF formatString = "DDMMYY8"
    THEN substrFrom(dateStr, 6) \o <<"-">> \o substr(dateStr, 3, 2)
             \o <<"-">> \o substr(dateStr, 0, 2)
    ELSE IF formatString = "JULIAN7"
         THEN dateStr
         ELSE IF formatString = "DATE9"
              THEN substr(dateStr, 0, 2) \o <<" ">> \o substr(dateStr, 2, 3)
                       \o <<" ">> \o substrFrom(dateStr, 5)
              ELSE dateStr

\* for (var r = 0; r < arrayData.length; r++) over the date column at c.
\* (arrayData[r][c] as string).trim() is a TypeError unless the cell is a
\* string; the cells converted before it stay converted.
RECURSIVE convertRows(_, _, _, _, _)
convertRows(colInfo, arrayData, log, c, r) ==
    IF r >= Len(arrayData)
    THEN [data |-> arrayData, raised |-> FALSE, parsed |-> log]
    ELSE IF ~IsString(cellAt(arrayData[r + 1], c))
         THEN [data |-> arrayData, raised |-> TRUE, parsed |-> log]
         ELSE LET dateStr == rearrange(trim(arrayData[r + 1][c + 1].str),
                                       colInfo.formatString)
              IN  convertRows(colInfo,
                      [arrayData EXCEPT ![r + 1][c + 1] = DateCell(NewDate(dateStr))],
                      Append(log, [row |-> r, col |-> c, text |-> dateStr]),
                      c, r + 1)

\* for (var c = 0; c < columnsInfo.length; c++); arrayData.length is read only
\* for a date column, and is a TypeError when data is missing
RECURSIVE convertLoop(_, _, _, _, _)
convertLoop(columnsInfo, hasData, arrayData, log, c) ==
    IF c >= Len(columnsInfo)
    THEN [data |-> arrayData, raised |-> FALSE, parsed |-> log]
    ELSE IF columnsInfo[c + 1].type = "date"
         THEN IF ~hasData
              THEN [data |-> arrayData, raised |-> TRUE, parsed |-> log]
              ELSE LET rows == convertRows(columnsInfo[c + 1], arrayData, log, c, 0)
                   IN  IF rows.raised THEN rows
                       ELSE convertLoop(columnsInfo, hasData, rows.data,
                                        rows.parsed, c + 1)
         ELSE convertLoop(columnsInfo, hasData, arrayData, log, c + 1)

\* the message after the call, whether it raised, and the strings parsed
convertDateColumns(msg) ==
    IF ~msg.present
    THEN [resultData |-> msg, raised |-> FALSE, parsed |-> <<>>]
    ELSE IF ~msg.hasColumns
         THEN [resultData |-> msg, raised |-> TRUE, parsed |-> <<>>]
         ELSE LET out == convertLoop(msg.columns, msg.hasData, msg.data, <<>>, 0)
              IN  [resultData |-> [msg EXCEPT !.data = out.data],
                   raised |-> out.raised, parsed |-> out.parsed]

(***************************************************************************)
(* The messages the table functions are run on.  A column of the input is  *)
(* a number column (cells 10 * row + column, all different), a brush       *)
(* column with a 0/1 flag per row, a brush column whose flags arrive as    *)
(* the text "0", or a date column with one of the date inputs.             *)
(***************************************************************************)
DateInputs ==
    { [formatString |-> "DDMMYY8", text |-> <<"1","5","0","2","2","0","2","3">>],
      [formatString |-> "DDMMYY8",
       text |-> <<"1","5","/","0","2","/","2","0","2","3">>],
      [formatString |-> "DATE9", text |-> <<" ","1","5","F","E","B","2","3"," ">>],
      [formatString |-> "JULIAN7", text |-> <<"2","0","2","3","0","4","6">>],
      [formatString |-> "none", text |-> <<"2","0","2","3","-","0","2","-","1","5">>] }

ColumnInputs(nRows) ==
    {[kind |-> "number"], [kind |-> "brushText"]}
    \cup {[kind |-> "brush", flags |-> f] : f \in [1..nRows -> {0, 1}]}
    \cup {[kind |-> "date", input |-> d] : d \in DateInputs}

InputColumn(in, c) ==
    CASE in.kind = "number" -> VAColumn(c, "number", "none", "none")
      [] in.kind = "brush" -> VAColumn(c, "number", "brush", "none")
      [] in.kind = "brushText" -> VAColumn(c, "string", "brush", "none")
      [] in.kind = "date" -> VAColumn(c, "date", "none", in.input.formatString)

InputCell(in, r, c) ==
    CASE in.kind = "number" -> NumCell(10 * r + c)
      [] in.kind = "brush" -> NumCell(in.flags[r + 1])
      [] in.kind = "brushText" -> StrCell(<<"0">>)
      [] in.kind = "date" -> StrCell(in.input.text)

\* VAMessage; hasColumns, hasData, hasParameters: the property is there
VAMessage(columns, data, parameters) ==
    [present |-> TRUE, hasColumns |-> TRUE, hasData |-> TRUE,
     hasParameters |-> TRUE, columns |-> columns, data |-> data,
     parameters |-> parameters]

InputMessage(nRows, ins) ==
    VAMessage([c \in 1..Len(ins) |-> InputColumn(ins[c], c - 1)],
              [r \in 1..nRows |-> [c \in 1..Len(ins) |-> InputCell(ins[c], r - 1, c - 1)]],
              <<>>)

\* messages with the message itself, its columns or its data missing
MalformedMessages ==
    LET m == InputMessage(1, <<[kind |-> "number"],
                               [kind |-> "date", input |-> CHOOSE d \in DateInputs :
                                                      d.formatString = "none"]>>)
    IN  { [m EXCEPT !.present = FALSE, !.hasColumns = FALSE, !.hasData = FALSE,
                    !.columns = <<>>, !.data = <<>>],
          [m EXCEPT !.hasColumns = FALSE, !.columns = <<>>],
          [m EXCEPT !.hasData = FALSE, !.data = <<>>],
          [m EXCEPT !.hasColumns = FALSE, !.columns = <<>>,
                    !.hasData = FALSE, !.data = <<>>] }

NoCall == [undefined |-> TRUE]
NoPrior == [known |-> FALSE, result |-> FALSE, type |-> "none"]

ResizeIdle ==
    /\ listeners = 0
    /\ timeoutID = [s \in 0..MaxCallers |-> 0]
    /\ timers = {}
    /\ dispatching = 0
    /\ elapsed = 0
    /\ burst = [active |-> FALSE, notifications |-> 0, callbacks |-> 0]
    /\ invoked = [i \in 1..MaxCallers |-> <<>>]

NoCallYet ==
    /\ called = "none"
    /\ returned = NoCall
    /\ raised = FALSE
    /\ before = resultData
    /\ parsed = <<>>
    /\ prior = NoPrior

InitTable ==
    /\ \/ \E nRows \in 0..MaxRows : \E nCols \in 0..MaxCols :
              \E ins \in [1..nCols -> ColumnInputs(nRows)] :
                  resultData = InputMessage(nRows, ins)
       \/ resultData \in MalformedMessages
    /\ expectedTypes = <<>>
    /\ optionalTypes = [null |-> TRUE]
    /\ NoCallYet
    /\ ResizeIdle

\* a call of initializeSelections(resultData)
InitializeSelections ==
    LET out == initializeSelections(resultData)
    IN  /\ resultData' = out.resultData
        /\ returned' = out.returned
        /\ raised' = FALSE
        /\ called' = "initializeSelections"
        /\ before' = resultData
        /\ parsed' = <<>>
        /\ UNCHANGED <<expectedTypes, optionalTypes, prior>>
        /\ UNCHANGED resizeVars

\* a call of convertDateColumns(resultData)
ConvertDateColumns ==
    LET out == convertDateColumns(resultData)
    IN  /\ resultData' = out.resultData
        /\ returned' = NoCall
        /\ raised' = out.raised
        /\ called' = "convertDateColumns"
        /\ before' = resultData
        /\ parsed' = out.parsed
        /\ UNCHANGED <<expectedTypes, optionalTypes, prior>>
        /\ UNCHANGED resizeVars

NextTable == InitializeSelections \/ ConvertDateColumns

SpecTable == InitTable /\ [][NextTable]_vars

(***************************************************************************)
(* Properties of the table functions, stated on the message before the     *)
(* last call (before) and after it (resultData).                           *)
(***************************************************************************)
HasTable(m) == m.present /\ m.hasColumns /\ m.hasData

\* every row is as long as the column list
Aligned(m) == HasTable(m) /\ \A r \in 1..Len(m.data) : Len(m.data[r]) = Len(m.columns)

\* the 1-based positions of the columns tagged "brush"
BrushPositions(columns) == {k \in 1..Len(columns) : columns[k].usage = "brush"}

\* a sequence without its k-th element, the others in their order
Without(a, k) == [i \in 1..(Len(a) - 1) |-> IF i < k THEN a[i] ELSE a[i + 1]]

\* the entries {row: r}, ascending, of the rows whose k-th cell is not the number 0
SelectedRows(data, k) ==
    LET rows == SelectSeq([i \in 1..Len(data) |-> i],
                          LAMBDA i : data[i][k] # NumCell(0))
    IN  [i \in 1..Len(rows) |-> [row |-> rows[i] - 1]]

\* C2: with b brush columns, at any positions, the column list and every row
\* are b shorter after initializeSelections and no brush column is left.
C2_EveryBrushColumnRemoved ==
    (called = "initializeSelections" /\ Aligned(before)) =>
        LET b == Cardinality(BrushPositions(before.columns))
        IN  /\ Len(resultData.columns) = Len(before.columns) - b
            /\ \A r \in 1..Len(resultData.data) :
                   Len(resultData.data[r]) = Len(before.data[r]) - b
            /\ BrushPositions(resultData.columns) = {}

\* C3: with no brush column initializeSelections returns the empty list and
\* leaves columns and data as they were; with one brush column, at position k,
\* it returns {row: r}, ascending, for exactly the rows whose cell at k is not
\* the number 0, and removes the k-th column and the k-th cell of every row,
\* keeping the rest in order.
C3_AtMostOneBrushColumn ==
    (called = "initializeSelections" /\ Aligned(before)
        /\ Cardinality(BrushPositions(before.columns)) <= 1) =>
        IF BrushPositions(before.columns) = {}
        THEN returned = [selections |-> <<>>] /\ resultData = before
        ELSE LET k == CHOOSE k \in BrushPositions(before.columns) : TRUE
             IN  /\ returned = [selections |-> SelectedRows(before.data, k)]
                 /\ resultData.columns = Without(before.columns, k)
                 /\ resultData.data =
                        [r \in 1..Len(before.data) |-> Without(before.data[r], k)]

\* one brush column among others was extracted; some rows were selected and
\* some were not
C3_Witness ==
    /\ called = "initializeSelections" /\ Aligned(before)
    /\ Cardinality(BrushPositions(before.columns)) = 1
    /\ Len(before.columns) = MaxCols
    /\ returned.selections # <<>>
    /\ Len(returned.selections) < Len(before.data)

\* C4: when every row is as long as the column list before a call of
\* initializeSelections or convertDateColumns that completes, it is so after
\* the call, and the number of rows is the same.
C4_RowsStayAligned ==
    (called \in {"initializeSelections", "convertDateColumns"} /\ ~raised
        /\ Aligned(before)) =>
        /\ Aligned(resultData)
        /\ Len(resultData.data) = Len(before.data)

\* a brush column was removed from a table that had been through
\* convertDateColumns, with rows and other columns left
C4_Witness ==
    /\ called = "initializeSelections" /\ Aligned(before)
    /\ Len(resultData.columns) < Len(before.columns)
    /\ Len(resultData.columns) >= 1
    /\ Len(resultData.data) = MaxRows
    /\ \E r \in 1..Len(resultData.data) : \E c \in 1..Len(resultData.data[r]) :
           IsDate(resultData.data[r][c])

\* the cell a parsed string came from, trimmed
ParsedSource(e) == trim(before.data[e.row + 1][e.col + 1].str)
ParsedFormat(e) == before.columns[e.col + 1].formatString

EightDigits(s) == Len(s) = 8 /\ AllDigits(s)

\* DD/MM/YYYY: two digits, a separator, two digits, a separator, four digits
DaySepMonthSepYear(s) ==
    /\ Len(s) = 10
    /\ AllDigits(SubSeq(s, 1, 2)) /\ AllDigits(SubSeq(s, 4, 5))
    /\ AllDigits(SubSeq(s, 7, 10))
    /\ s[3] \notin Digits /\ s[6] \notin Digits

\* C5 as stated: for a DDMMYY8 cell whose trimmed string is eight digits
\* DDMMYYYY, the string handed to date parsing is YYYY-MM-DD.
C5_EightDigitsToISO ==
    called = "convertDateColumns" =>
        \A i \in 1..Len(parsed) :
            LET s == ParsedSource(parsed[i])
            IN  (ParsedFormat(parsed[i]) = "DDMMYY8" /\ EightDigits(s)) =>
                    parsed[i].text = SubSeq(s, 5, 8) \o <<"-">> \o SubSeq(s, 3, 4)
                                         \o <<"-">> \o SubSeq(s, 1, 2)

\* C5 amended: for a DDMMYY8 cell the string handed to date parsing is the
\* trimmed string from offset 6 on, a dash, its characters at offsets 3 and 4,
\* a dash, its first two characters.  That is YYYY-MM-DD when the trimmed
\* string is DD/MM/YYYY, and the last two digits, the fourth and fifth digit
\* and the first two digits when it is eight digits.
C5_FixedOffsets ==
    called = "convertDateColumns" =>
        \A i \in 1..Len(parsed) :
            LET s == ParsedSource(parsed[i])
                t == parsed[i].text
            IN  ParsedFormat(parsed[i]) = "DDMMYY8" =>
                    /\ EightDigits(s) =>
                           t = <<s[7], s[8], "-", s[4], s[5], "-", s[1], s[2]>>
                    /\ DaySepMonthSepYear(s) =>
                           /\ t = SubSeq(s, 7, 10) \o <<"-">> \o SubSeq(s, 4, 5)
                                      \o <<"-">> \o SubSeq(s, 1, 2)
                           /\ IsISODate(t) =>
                                  resultData.data[parsed[i].row + 1][parsed[i].col + 1]
                                      = DateCell([parse |-> "iso",
                                                  ymd |-> <<Number(SubSeq(s, 7, 10)),
                                                            Number(SubSeq(s, 4, 5)),
                                                            Number(SubSeq(s, 1, 2))>>])

\* a call converted an eight-digit DDMMYY8 cell and a DD/MM/YYYY one
C5_Witness ==
    /\ called = "convertDateColumns" /\ ~raised
    /\ \E i \in 1..Len(parsed) :
           ParsedFormat(parsed[i]) = "DDMMYY8" /\ EightDigits(ParsedSource(parsed[i]))
    /\ \E i \in 1..Len(parsed) :
           /\ ParsedFormat(parsed[i]) = "DDMMYY8"
           /\ DaySepMonthSepYear(ParsedSource(parsed[i]))

\* C8: initializeSelections and convertDateColumns never raise, whatever the
\* message and the calls before; on missing input initializeSelections
\* returns an empty list (null for an absent message) and convertDateColumns
\* leaves the message untouched.
C8_NeverRaises ==
    /\ ~raised
    /\ (called = "initializeSelections" /\ ~HasTable(before)) =>
           /\ returned = IF before.present THEN [selections |-> <<>>]
                         ELSE [null |-> TRUE]
           /\ resultData = before
    /\ (called = "convertDateColumns" /\ ~HasTable(before)) => resultData = before

(***************************************************************************)
(* validateRoles                                                           *)
(***************************************************************************)
IsNull(optional) == DOMAIN optional = {"null"}
IsList(optional) == DOMAIN optional = {"list"}
IsSingle(optional) == DOMAIN optional = {"single"}

\* for (let c = 0; c < expectedTypes.length; c++): no required type differs
RECURSIVE requiredLoop(_, _, _)
requiredLoop(columnsInfo, expected, c) ==
    IF c >= Len(expected) THEN TRUE
    ELSE IF columnsInfo[c + 1].type # expected[c + 1] THEN FALSE
         ELSE requiredLoop(columnsInfo, expected, c + 1)

\* the lockstep loop made to fail when columns are left after the list
RECURSIVE optionalListLoopStrict(_, _, _, _)
optionalListLoopStrict(columnsInfo, optional, c, i) ==
    IF c >= Len(columnsInfo) THEN TRUE
    ELSE IF i >= Len(optional) THEN FALSE
         ELSE IF columnsInfo[c + 1].type # optional[i + 1] THEN FALSE
              ELSE optionalListLoopStrict(columnsInfo, optional, c + 1, i + 1)

\* for (let c = expectedTypes.length, i = 0;
\*      c < numCols && i < optionalTypes.length; c++, i++)
RECURSIVE optionalListLoop(_, _, _, _)
optionalListLoop(columnsInfo, optional, c, i) ==
    IF ~(c < Len(columnsInfo) /\ i < Len(optional)) THEN TRUE
    ELSE IF columnsInfo[c + 1].type # optional[i + 1] THEN FALSE
         ELSE optionalListLoop(columnsInfo, optional, c + 1, i + 1)

\* the single-type check made on the first extra column only
optionalSingleFirstOnly(columnsInfo, optional, c) ==
    c >= Len(columnsInfo) \/ columnsInfo[c + 1].type = optional

\* for (let c = expectedTypes.length; c < numCols; c++)
RECURSIVE optionalSingleLoop(_, _, _)
optionalSingleLoop(columnsInfo, optional, c) ==
    IF c >= Len(columnsInfo) THEN TRUE
    ELSE IF columnsInfo[c + 1].type # optional THEN FALSE
         ELSE optionalSingleLoop(columnsInfo, optional, c + 1)

validateRoles(msg, expected, optional) ==
    LET columnsInfo == msg.columns
        numCols == Len(columnsInfo)
    IN  IF numCols < Len(expected) THEN FALSE
        ELSE IF ~requiredLoop(columnsInfo, expected, 0) THEN FALSE
        ELSE IF numCols > Len(expected)
             THEN IF IsNull(optional) THEN FALSE
                  ELSE IF IsList(optional)
                       THEN optionalListLoop(columnsInfo, optional.list,
                                             Len(expected), 0)
                       ELSE optionalSingleLoop(columnsInfo, optional.single,
                                               Len(expected))
             ELSE TRUE

TypeTags == {"string", "number"}
AppendTags == TypeTags \cup {"date"}

TagLists(n) == UNION {[1..k -> TypeTags] : k \in 0..n}

\* a message whose columns have the given types, with one row of data
TypedMessage(types) ==
    VAMessage([c \in 1..Len(types) |-> VAColumn(c - 1, types[c], "none", "none")],
              <<[c \in 1..Len(types) |-> NumCell(c - 1)]>>, <<>>)

InitValidate ==
    /\ resultData \in {TypedMessage(types) : types \in TagLists(MaxCols)}
    /\ expectedTypes \in TagLists(MaxTypes)
    /\ optionalTypes \in {[null |-> TRUE]}
                         \cup {[single |-> t] : t \in TypeTags}
                         \cup {[list |-> l] : l \in TagLists(MaxTypes)}
    /\ NoCallYet
    /\ ResizeIdle

\* a call of validateRoles(resultData, expectedTypes, optionalTypes)
ValidateRoles ==
    /\ returned' = [bool |-> validateRoles(resultData, expectedTypes, optionalTypes)]
    /\ raised' = FALSE
    /\ called' = "validateRoles"
    /\ before' = resultData
    /\ parsed' = <<>>
    /\ UNCHANGED <<resultData, expectedTypes, optionalTypes, prior>>
    /\ UNCHANGED resizeVars

\* the message gains one column, of type t, after it was validated
AppendColumn(t) ==
    /\ called = "validateRoles"
    /\ ~prior.known
    /\ resultData' =
           [resultData EXCEPT
               !.columns = Append(@, VAColumn(Len(@), t, "none", "none")),
               !.data = [r \in 1..Len(@) |-> Append(@[r], NumCell(Len(@[r])))]]
    /\ prior' = [known |-> TRUE, result |-> returned.bool, type |-> t]
    /\ called' = "none"
    /\ returned' = NoCall
    /\ before' = resultData'
    /\ UNCHANGED <<expectedTypes, optionalTypes, raised, parsed>>
    /\ UNCHANGED resizeVars

NextValidate == ValidateRoles \/ \E t \in AppendTags : AppendColumn(t)

SpecValidate == InitValidate /\ [][NextValidate]_vars

\* the type tags of the columns
ColumnTypes(m) == [c \in 1..Len(m.columns) |-> m.columns[c].type]

\* t is not the single optional tag, nor a member of the optional list
NotInOptional(t, optional) ==
    /\ IsSingle(optional) => t # optional.single
    /\ IsList(optional) => \A i \in 1..Len(optional.list) : t # optional.list[i]

\* the message validated, gained a column of a type not in optionalTypes, and
\* was validated again
AppendedToValid ==
    /\ called = "validateRoles"
    /\ prior.known /\ prior.result
    /\ NotInOptional(prior.type, optionalTypes)

\* columns beyond the required ones before the column was appended
ExtrasBeforeAppend == Len(resultData.columns) - 1 - Len(expectedTypes)

\* C6 as stated: when validateRoles returned true, appending one column of a
\* type not in optionalTypes makes it return false.
C6_AppendedColumnFails == AppendedToValid => returned.bool = FALSE

\* C6 amended: it then returns false when optionalTypes is null or a single
\* tag, or a list longer than the number of extra columns the message already
\* had; with a list no longer than that the appended column is not compared
\* and validateRoles still returns true.
C6_AppendedColumnFailsInRange ==
    AppendedToValid =>
        (returned.bool = FALSE <=>
            ~(IsList(optionalTypes)
                /\ Len(optionalTypes.list) <= ExtrasBeforeAppend))

\* a column was appended where the optional list still has a tag for it, and
\* the message no longer validates
C6_Witness ==
    /\ AppendedToValid
    /\ IsList(optionalTypes)
    /\ Len(expectedTypes) >= 1
    /\ ExtrasBeforeAppend >= 1
    /\ Len(optionalTypes.list) > ExtrasBeforeAppend
    /\ ~returned.bool

\* C7: validateRoles returns true exactly when there are at least N columns,
\* the first N types equal the expected tags, and either there are exactly N
\* columns, or optionalTypes is a list whose tags equal the extra columns'
\* types as far as both go, or it is a single tag that every extra column's
\* type equals; the message is left as it was.
C7_ValidateRolesResult ==
    called = "validateRoles" =>
        LET types == ColumnTypes(before)
            N == Len(expectedTypes)
            extras == Len(types) - N
        IN  /\ returned.bool <=>
                /\ Len(types) >= N
                /\ \A c \in 1..N : types[c] = expectedTypes[c]
                /\ \/ Len(types) = N
                   \/ /\ IsList(optionalTypes)
                      /\ \A i \in 1..Min(extras, Len(optionalTypes.list)) :
                             types[N + i] = optionalTypes.list[i]
                   \/ /\ IsSingle(optionalTypes)
                      /\ \A i \in 1..extras : types[N + i] = optionalTypes.single
            /\ resultData = before

\* validateRoles accepted a message with more extra columns than the optional
\* list has tags
C7_Witness ==
    /\ called = "validateRoles" /\ returned.bool
    /\ Len(expectedTypes) >= 1
    /\ IsList(optionalTypes) /\ Len(optionalTypes.list) >= 1
    /\ Len(before.columns) > Len(expectedTypes) + Len(optionalTypes.list)

(***************************************************************************)
(* getVAParameters                                                         *)
(***************************************************************************)
\* the object {}
EmptyObject == [l \in {} |-> 0]

\* an assignment that keeps the value a label already has
assignIfAbsent(parameters, label, value) ==
    IF label \in DOMAIN parameters THEN parameters
    ELSE [l \in DOMAIN parameters \cup {label} |->
             IF l = label THEN value ELSE parameters[l]]

\* parameters[parameter.label] = parameter.value
assign(parameters, label, value) ==
    [l \in DOMAIN parameters \cup {label} |->
        IF l = label THEN value ELSE parameters[l]]

\* resultData.parameters.forEach(...), from the i-th parameter (0-based) on
RECURSIVE forEachParameter(_, _, _)
forEachParameter(list, parameters, i) ==
    IF i >= Len(list) THEN parameters
    ELSE forEachParameter(list,
             assign(parameters, list[i + 1].label, list[i + 1].value), i + 1)

\* the value returned; reading .parameters of an absent message is a TypeError
getVAParameters(msg) ==
    IF ~msg.present
    THEN [returned |-> NoCall, raised |-> TRUE]
    ELSE IF msg.hasParameters
         THEN [returned |-> [parameters |-> forEachParameter(msg.parameters,
                                                             EmptyObject, 0)],
               raised |-> FALSE]
         ELSE [returned |-> [parameters |-> EmptyObject], raised |-> FALSE]

Labels == {"a", "b"}

\* a parameter's value: a string or a list of strings
ParameterValues == {[single |-> "1"], [single |-> "2"], [list |-> <<"x", "y">>]}

VAParameters == [label : Labels, value : ParameterValues]

InitParameters ==
    /\ resultData \in
           {[TypedMessage(<<"number">>) EXCEPT !.parameters = ps] :
                ps \in UNION {[1..n -> VAParameters] : n \in 0..MaxParams}}
           \cup {[TypedMessage(<<"number">>) EXCEPT !.hasParameters = FALSE],
                 [TypedMessage(<<>>) EXCEPT !.present = FALSE, !.hasColumns = FALSE,
                      !.hasData = FALSE, !.hasParameters = FALSE, !.data = <<>>]}
    /\ expectedTypes = <<>>
    /\ optionalTypes = [null |-> TRUE]
    /\ NoCallYet
    /\ ResizeIdle

\* a call of getVAParameters(resultData)
GetVAParameters ==
    LET out == getVAParameters(resultData)
    IN  /\ returned' = out.returned
        /\ raised' = out.raised
        /\ called' = "getVAParameters"
        /\ before' = resultData
        /\ parsed' = <<>>
        /\ UNCHANGED <<resultData, expectedTypes, optionalTypes, prior>>
        /\ UNCHANGED resizeVars

NextParameters == GetVAParameters

SpecParameters == InitParameters /\ [][NextParameters]_vars

\* the parameter list of a message, empty when it has none
ParameterList(m) == IF m.hasParameters THEN m.parameters ELSE <<>>

\* the 1-based position of the last parameter labelled l
LastWith(list, l) ==
    CHOOSE i \in 1..Len(list) :
        /\ list[i].label = l
        /\ \A j \in (i + 1)..Len(list) : list[j].label # l

\* C9: getVAParameters returns a mapping whose labels are exactly those of
\* the parameter list, each with the value of the last parameter carrying
\* that label; the empty mapping when there are no parameters; the message
\* is not modified.
C9_LastValuePerLabel ==
    (called = "getVAParameters" /\ before.present) =>
        LET list == ParameterList(before)
            labels == {list[i].label : i \in 1..Len(list)}
        IN  /\ ~raised
            /\ DOMAIN returned.parameters = labels
            /\ \A l \in labels :
                   returned.parameters[l] = list[LastWith(list, l)].value
            /\ list = <<>> => returned.parameters = EmptyObject
            /\ resultData = before

\* the list a: "1", b: ["x", "y"], a: "2" was collapsed
C9_Witness ==
    /\ called = "getVAParameters"
    /\ before.hasParameters
    /\ before.parameters = <<[label |-> "a", value |-> [single |-> "1"]],
                             [label |-> "b", value |-> [list |-> <<"x", "y">>]],
                             [label |-> "a", value |-> [single |-> "2"]]>>
    /\ DOMAIN returned.parameters = {"a", "b"}
    /\ returned.parameters["a"] = [single |-> "2"]
    /\ returned.parameters["b"] = [list |-> <<"x", "y">>]

(***************************************************************************)
(* setupResizeListener, with the host's dispatch of 'resize' to the        *)
(* registered listeners (one at a time, in registration order, nothing     *)
(* else running in between) and its timers.  Time advances in units; a     *)
(* timer runs when its delay has passed, before time advances further or   *)
(* a later notification is delivered.                                      *)
(*                                                                         *)
(* timeoutID is kept per scope: scope 0 is the module, scope i the i-th    *)
(* call of setupResizeListener.  timerScope says in which scope the        *)
(* handler installed by a call finds the handle.  0 in timeoutID is the    *)
(* handle never assigned; timer ids are positive.                          *)
(***************************************************************************)
\* setTimeout(..., 25)
QuietPeriod == 25

\* a handle declared inside setupResizeListener, one per call
timerScopePerCall(call) == call

\* var _timeoutID, declared outside setupResizeListener
timerScope(call) == 0

\* an id no pending timer and no handle has
FreshId(handles, pending) ==
    CHOOSE n \in 1..(Cardinality(pending) + MaxCallers + 2) :
        /\ \A t \in pending : t.id # n
        /\ \A sc \in DOMAIN handles : handles[sc] # n
        /\ \A m \in 1..(n - 1) :
               \/ \E t \in pending : t.id = m
               \/ \E sc \in DOMAIN handles : handles[sc] = m

\* the 'resize' listener without its clearTimeout
resizeListenerNoClear(call, handles, pending) ==
    LET id == FreshId(handles, pending)
    IN  [timeoutID |-> [handles EXCEPT ![timerScope(call)] = id],
         timers |-> pending \cup {[id |-> id, owner |-> call,
                                   remaining |-> QuietPeriod]}]

\* the 'resize' listener installed by a call:
\*   if (_timeoutID) clearTimeout(_timeoutID); _timeoutID = setTimeout(..., 25)
resizeListener(call, handles, pending) ==
    LET old == handles[timerScope(call)]
        kept == IF old # 0 THEN {t \in pending : t.id # old} ELSE pending
        id == FreshId(handles, pending)
    IN  [timeoutID |-> [handles EXCEPT ![timerScope(call)] = id],
         timers |-> kept \cup {[id |-> id, owner |-> call,
                                remaining |-> QuietPeriod]}]

InitResize ==
    /\ resultData = TypedMessage(<<>>)
    /\ expectedTypes = <<>>
    /\ optionalTypes = [null |-> TRUE]
    /\ NoCallYet
    /\ ResizeIdle

TimerDue == \E t \in timers : t.remaining = 0

\* a call of setupResizeListener(callback): one more 'resizeEndEvent' listener
\* and one more 'resize' listener
SetupResizeListener ==
    /\ dispatching = 0
    /\ listeners < MaxCallers
    /\ listeners' = listeners + 1
    /\ UNCHANGED <<timeoutID, timers, dispatching, elapsed, burst, invoked>>
    /\ UNCHANGED messageVars

\* the window is resized: the host starts to dispatch 'resize'.  The
\* notification belongs to the current burst when the quiet period of the one
\* before has not elapsed, and starts a burst otherwise.
Resize ==
    /\ dispatching = 0
    /\ listeners >= 1
    /\ ~TimerDue
    /\ IF burst.active /\ elapsed < QuietPeriod
       THEN /\ burst.notifications < MaxNotifs
            /\ burst' = [burst EXCEPT !.notifications = @ + 1]
            /\ UNCHANGED invoked
       ELSE /\ burst' = [active |-> TRUE, notifications |-> 1,
                         callbacks |-> listeners]
            /\ invoked' = [i \in 1..MaxCallers |-> <<>>]
    /\ elapsed' = 0
    /\ dispatching' = 1
    /\ UNCHANGED <<listeners, timeoutID, timers>>
    /\ UNCHANGED messageVars

\* the host runs the next 'resize' listener
ResizeListener ==
    /\ dispatching # 0
    /\ LET out == resizeListener(dispatching, timeoutID, timers)
       IN  /\ timeoutID' = out.timeoutID
           /\ timers' = out.timers
    /\ dispatching' = IF dispatching < listeners THEN dispatching + 1 ELSE 0
    /\ UNCHANGED <<listeners, elapsed, burst, invoked>>
    /\ UNCHANGED messageVars

\* a timer runs: window.dispatchEvent(resizeEndEvent), so every
\* 'resizeEndEvent' listener calls its callback
Timeout ==
    /\ dispatching = 0
    /\ \E t \in timers :
           /\ t.remaining = 0
           /\ timers' = timers \ {t}
    /\ invoked' = [i \in 1..MaxCallers |->
                      IF i <= listeners THEN Append(invoked[i], elapsed)
                      ELSE invoked[i]]
    /\ UNCHANGED <<listeners, timeoutID, dispatching, elapsed, burst>>
    /\ UNCHANGED messageVars

\* one unit of time passes
Tick ==
    /\ dispatching = 0
    /\ burst.active
    /\ ~TimerDue
    /\ elapsed < QuietPeriod \/ timers # {}
    /\ elapsed' = Min(elapsed + 1, QuietPeriod)
    /\ timers' = {[t EXCEPT !.remaining = @ - 1] : t \in timers}
    /\ UNCHANGED <<listeners, timeoutID, dispatching, burst, invoked>>
    /\ UNCHANGED messageVars

NextResize ==
    \/ SetupResizeListener
    \/ Resize
    \/ ResizeListener
    \/ Timeout
    \/ Tick

SpecResize == InitResize /\ [][NextResize]_vars

\* the quiet period after the burst's last notification has elapsed and
\* every timer that was due has run
Settled ==
    /\ burst.active /\ dispatching = 0
    /\ elapsed = QuietPeriod
    /\ ~TimerDue

\* C1: for a burst of notifications, each arriving before the quiet period of
\* the one before has elapsed, every callback registered at its start is
\* invoked exactly once, when the quiet period after the last notification
\* has elapsed and not before.
C1_OnceAfterQuietPeriod ==
    burst.active =>
        \A i \in 1..burst.callbacks :
            /\ Len(invoked[i]) <= 1
            /\ elapsed < QuietPeriod => invoked[i] = <<>>
            /\ Settled => invoked[i] = <<QuietPeriod>>

\* a burst of several notifications, with several callbacks registered,
\* has settled
C1_Witness ==
    /\ Settled
    /\ burst.notifications = MaxNotifs
    /\ burst.callbacks = MaxCallers
    /\ \A i \in 1..MaxCallers : invoked[i] = <<QuietPeriod>>

\* C10 as stated: the resize handler installed by one call never cancels a
\* timer scheduled by the handler installed by another call.
C10_NoCrossCallCancel ==
    [][dispatching # 0 =>
          \A t \in timers :
              (\A u \in timers' : u.id # t.id) => t.owner = dispatching]_vars

\* C10 amended: the calls share the one timer handle.  The handler installed
\* by any call cancels the pending timer whichever call's handler scheduled
\* it, so at most one timer is pending, and it is the one the shared handle
\* names.
C10_OneSharedTimer ==
    /\ Cardinality(timers) <= 1
    /\ \A t \in timers : timeoutID[0] = t.id
    /\ \A sc \in 1..MaxCallers : timeoutID[sc] = 0

\* after a notification went to the listeners of two calls, the timer of the
\* second is the only one pending
C10_Witness ==
    /\ listeners = MaxCallers
    /\ dispatching = 0
    /\ burst.active /\ burst.callbacks = MaxCallers
    /\ \E t \in timers : timers = {t} /\ t.owner = MaxCallers

=============================================================================
